---- MODULE Spec2Model ----
(***************************************************************************)
(* PDFMANAGER: a React client over a hosted backend (auth, object storage, *)
(* relational tables with row-level security, realtime change feed).       *)
(*                                                                         *)
(* The module models                                                       *)
(*   - the data layer: tables pdfs / comments / profiles, bucket 'pdfs'    *)
(*     and the row-level policies of the SQL migrations;                   *)
(*   - the PDFUploader component (uploadFile);                             *)
(*   - the Dashboard share actions and the SharedPDF page;                 *)
(*   - the PDFView comment list (initial load, realtime handler, cleanup)  *)
(*     and addComment of the PDFView and SharedPDF pages.                  *)
(* Each part has its own specification over the shared variables.          *)
(***************************************************************************)
EXTENDS Integers, Sequences, FiniteSets, TLC

VARIABLES
    pdfs,       \* table pdfs: a set of rows
    bucket,     \* storage bucket 'pdfs': the set of stored object keys
    comments,   \* table comments: a set of rows
    profiles,   \* table profiles: user id -> display name
    nextId,     \* how many row ids gen_random_uuid() has handed out
    nextTok,    \* how many share credentials (uuids) have been generated
    clock,      \* the time in milliseconds (Date.getTime(), now())
    resp,       \* the last data-layer request with its outcome
    session,    \* the browser's signed-in user (auth.getUser), or NULL
    up,         \* the calls of uploadFile, each with its position and locals
    uploading,  \* PDFUploader state `uploading`
    dashPdfs,   \* Dashboard state `pdfs`: the list of rows on display
    clipboard,  \* the share link last copied to the clipboard
    links,      \* the share links sent by email so far
    share,      \* the call of handleEmailShare in flight
    shared,     \* the SharedPDF page of a visitor's browser
    view,       \* the PDFView page: its comment list, loads and handlers
    feed,       \* the realtime channel of the page: events not yet handled
    compose,    \* the comment form of a page and its call of addComment
    del,        \* the call of Dashboard.handleDelete in flight
    pager       \* the page controls of the mounted viewer

dbVars == <<pdfs, bucket, comments, profiles, nextId, nextTok, clock>>
pageVars == <<clipboard, links, share, shared, compose, del, pager>>
viewVars == <<view, feed>>
clientVars == <<session, up, uploading, dashPdfs, pageVars, viewVars>>
vars == <<dbVars, resp, clientVars>>

-----------------------------------------------------------------------------
(* Bounds *)

MaxDocs == 1
MaxTokens == 2
MaxComments == 1
MaxUploads == 2
MaxClock == 10
MaxPosts == 2
MaxViewed == 3
MaxPages == 3

-----------------------------------------------------------------------------
(* Values *)

\* SQL NULL / JavaScript null
NULL == "null"
\* the role of a request that carries no user session
Anon == "anon"
Users == {"u1", "u2"}
Requesters == Users \cup {Anon}

\* uuids: the n-th generated uuid; two generations never give the same value
UuidNames == <<"t1", "t2", "t3", "t4", "t5", "t6", "t7", "t8">>
Uuid(n) == UuidNames[n]
Tokens == {Uuid(n) : n \in 1..MaxTokens}

-----------------------------------------------------------------------------
(* Text: a string is the sequence of its UTF-16 code units, each written    *)
(* as a one-character string ("hs"/"ls" stand for the two surrogate code   *)
(* units of one character outside the basic plane).                        *)

LowerChars == {"a", "b", "c", "d", "e", "f", "g", "h", "i", "j", "k", "l", "m",
               "n", "o", "p", "q", "r", "s", "t", "u", "v", "w", "x", "y", "z"}
UpperChars == {"A", "B", "C", "D", "E", "F", "G", "H", "I", "J", "K", "L", "M",
               "N", "O", "P", "Q", "R", "S", "T", "U", "V", "W", "X", "Y", "Z"}
DigitChars == <<"0", "1", "2", "3", "4", "5", "6", "7", "8", "9">>

\* the character class [a-zA-Z0-9.-] of uploadFile
AllowedChars ==
    LowerChars \cup UpperChars \cup {DigitChars[i] : i \in 1..10} \cup {".", "-"}

\* String.prototype.includes
Includes(s, sub) ==
    \E i \in 0..(Len(s) - Len(sub)) : SubSeq(s, i + 1, i + Len(sub)) = sub

\* String.prototype.startsWith, for a one-character prefix
StartsWith(s, c) == Len(s) > 0 /\ s[1] = c

\* decimal text of a non-negative number (template-literal conversion)
RECURSIVE NumberText(_)
NumberText(n) ==
    IF n < 10 THEN <<DigitChars[n + 1]>>
    ELSE NumberText(n \div 10) \o <<DigitChars[(n % 10) + 1]>>

\* the replacement without the g flag: only the first match is replaced
SanitizeNameFirstOnly(name) ==
    LET bad == {i \in 1..Len(name) : name[i] \notin AllowedChars} IN
    [i \in 1..Len(name) |->
        IF i \in bad /\ \A j \in bad : i <= j THEN "_" ELSE name[i]]

\* file.name.replace(/[^a-zA-Z0-9.-]/g, '_')
SanitizeName(name) ==
    [i \in 1..Len(name) |-> IF name[i] \in AllowedChars THEN name[i] ELSE "_"]

\* `${timestamp}-${sanitized name}`
Filename(timestamp, name) == NumberText(timestamp) \o <<"-">> \o SanitizeName(name)

bucketUrl == "https://mshzrnauafqpdarzefkc.supabase.co/storage/v1/object/public/pdfs"

\* `${bucketUrl}/${path without a leading slash}`
PublicURL(path) ==
    <<bucketUrl, "/">> \o (IF StartsWith(path, "/") THEN Tail(path) ELSE path)

\* the files offered to the uploader: name and declared MIME type
PdfType == <<"a", "/", "p", "d", "f">>
XPdfType == <<"x", "-", "p", "d", "f", "+", "z">>
UpperPdfType == <<"a", "/", "P", "D", "F">>
PngType == <<"i", "/", "p", "n", "g">>
NoType == <<>>

ReportName == <<"r", ".", "p", "d", "f">>
OddName == <<"a", " ", "_", "/", "Z", "-", "9", "hs", "ls">>

Files ==
    { [name |-> ReportName, type |-> PdfType],
      [name |-> OddName, type |-> XPdfType],
      [name |-> ReportName, type |-> PngType],
      [name |-> OddName, type |-> UpperPdfType],
      [name |-> ReportName, type |-> NoType] }

-----------------------------------------------------------------------------
(* Data layer: schema and row-level security                               *)

\* a request to the data layer: the session's user (or Anon) and the share
\* credential the request presents (NULL when it presents none)
Request(uid, cred) == [uid |-> uid, cred |-> cred]

\* SQL equality is not true when either side is NULL
SqlEq(a, b) == a # NULL /\ b # NULL /\ a = b

\* the owner policy without its ownership test: any signed-in user passes
PdfsOwnerPolicyAnyUser(req, row) == req.uid # Anon

\* policy "Users can manage their own PDFs": TO authenticated,
\* USING (auth.uid() = user_id) WITH CHECK (auth.uid() = user_id)
PdfsOwnerPolicy(req, row) == req.uid # Anon /\ SqlEq(req.uid, row.user_id)

\* policy "Anyone can view shared PDFs": TO anon, authenticated,
\* USING (shared_link_id = current_setting('request.shared_link_id', true))
PdfsSharedLinkPolicy(req, row) == SqlEq(row.shared_link_id, req.cred)

\* read by share token: any requester presenting the row's share_token
PdfsShareTokenPolicy(req, row) == SqlEq(row.share_token, req.cred)

PdfsCanSelect(req, row) ==
    \/ PdfsOwnerPolicy(req, row)
    \/ PdfsSharedLinkPolicy(req, row)
    \/ PdfsShareTokenPolicy(req, row)
\* an insert check that asks for a session but not for the owner column
PdfsCanInsertAnyOwner(req, row) == req.uid # Anon
PdfsCanInsert(req, row) == PdfsOwnerPolicy(req, row)
\* an update policy with USING but no WITH CHECK on the new row
PdfsCanUpdateUsingOnly(req, old, new) == PdfsOwnerPolicy(req, old)
PdfsCanUpdate(req, old, new) == PdfsOwnerPolicy(req, old) /\ PdfsOwnerPolicy(req, new)
PdfsCanDelete(req, row) == PdfsOwnerPolicy(req, row)

\* a table without UNIQUE(shared_link_id)
PdfsConstraintsNoUnique(rows) == \A r \in rows : r.user_id \in Users
\* table constraints of pdfs: NOT NULL columns, user_id REFERENCES auth.users,
\* UNIQUE(shared_link_id) (NULLs are distinct)
PdfsConstraints(rows) ==
    /\ \A r \in rows : r.user_id \in Users
    /\ \A r1, r2 \in rows :
          (r1.id # r2.id /\ r1.shared_link_id # NULL) => r1.shared_link_id # r2.shared_link_id

\* the share_token column: "share token, if set, is globally unique"
PdfsShareTokenUnique(rows) ==
    \A r1, r2 \in rows :
        (r1.id # r2.id /\ r1.share_token # NULL) => r1.share_token # r2.share_token

\* storage.objects policies; each names only the bucket and the role
StorageCanInsert(req, bucket_id) == req.uid # Anon /\ bucket_id = "pdfs"
StorageCanSelectAuthenticated(req, bucket_id) == req.uid # Anon /\ bucket_id = "pdfs"
StorageCanSelectPublic(req, bucket_id) == bucket_id = "pdfs"
StorageCanSelect(req, bucket_id) ==
    StorageCanSelectAuthenticated(req, bucket_id) \/ StorageCanSelectPublic(req, bucket_id)
\* a delete policy granted TO public
StorageCanDeleteAnyone(req, bucket_id) == bucket_id = "pdfs"
StorageCanDelete(req, bucket_id) == req.uid # Anon /\ bucket_id = "pdfs"

\* policy "Users can manage their own comments"
CommentsOwnPolicy(req, c) == req.uid # Anon /\ SqlEq(req.uid, c.user_id)
\* policy "PDF owners can view all comments"
\* the owner policy without its test of pdfs.user_id
CommentsPdfOwnerPolicyAnyUser(req, c, rows) ==
    req.uid # Anon /\ \E r \in rows : r.id = c.pdf_id
CommentsPdfOwnerPolicy(req, c, rows) ==
    req.uid # Anon /\ \E r \in rows : r.id = c.pdf_id /\ SqlEq(r.user_id, req.uid)
\* the shared-comment policy as granted TO authenticated only
CommentsSharedLinkPolicyAuthOnly(req, c, rows) ==
    req.uid # Anon /\ \E r \in rows : r.id = c.pdf_id /\ SqlEq(r.shared_link_id, req.cred)

\* policy "Users can view comments on shared PDFs": TO anon, authenticated
CommentsSharedLinkPolicy(req, c, rows) ==
    \E r \in rows : r.id = c.pdf_id /\ SqlEq(r.shared_link_id, req.cred)
\* comment read by the parent document's share token
CommentsShareTokenPolicy(req, c, rows) ==
    \E r \in rows : r.id = c.pdf_id /\ SqlEq(r.share_token, req.cred)

CommentsCanSelect(req, c, rows) ==
    \/ CommentsOwnPolicy(req, c)
    \/ CommentsPdfOwnerPolicy(req, c, rows)
    \/ CommentsSharedLinkPolicy(req, c, rows)
    \/ CommentsShareTokenPolicy(req, c, rows)
CommentsCanInsert(req, c) == CommentsOwnPolicy(req, c)

\* table constraints of comments: user_id NOT NULL REFERENCES auth.users,
\* pdf_id NOT NULL REFERENCES pdfs(id)
CommentsConstraints(c, rows) ==
    /\ c.user_id \in Users
    /\ \E r \in rows : r.id = c.pdf_id

\* a delete that leaves the comments alone
CascadeDeleteNone(cs, gone) == cs
\* ON DELETE CASCADE: the comments left once the rows `gone` are deleted
CascadeDelete(cs, gone) == {c \in cs : c.pdf_id \notin {r.id : r \in gone}}

\* the rows of pdfs a SELECT of this request returns
VisiblePdfs(req, rows) == {r \in rows : PdfsCanSelect(req, r)}
\* the rows of comments a SELECT of this request returns
VisibleComments(req, cs, rows) == {c \in cs : CommentsCanSelect(req, c, rows)}

\* outcome of INSERT INTO pdfs: WITH CHECK of the policy, then the constraints
PdfsInsertResult(req, row, rows) ==
    IF ~PdfsCanInsert(req, row) THEN "denied"
    ELSE IF ~PdfsConstraints(rows \cup {row}) THEN "conflict"
    ELSE IF ~PdfsShareTokenUnique(rows \cup {row}) THEN "conflict"
    ELSE "ok"

\* outcome of UPDATE pdfs SET col = val WHERE id = ...: rows the USING clause
\* hides are not updated (no error); WITH CHECK and the constraints reject
PdfsUpdateResult(req, old, new, rows) ==
    IF ~PdfsOwnerPolicy(req, old) THEN "norows"
    ELSE IF ~PdfsCanUpdate(req, old, new) THEN "denied"
    ELSE IF ~PdfsConstraints((rows \ {old}) \cup {new}) THEN "conflict"
    ELSE IF ~PdfsShareTokenUnique((rows \ {old}) \cup {new}) THEN "conflict"
    ELSE "ok"

\* outcome of DELETE FROM pdfs WHERE id = ...
PdfsDeleteResult(req, old) == IF PdfsCanDelete(req, old) THEN "ok" ELSE "norows"

\* outcome of INSERT INTO comments
CommentsInsertResult(req, c, rows) ==
    IF ~CommentsCanInsert(req, c) THEN "denied"
    ELSE IF ~CommentsConstraints(c, rows) THEN "conflict"
    ELSE "ok"

\* a row of pdfs as uploadFile inserts it: share_token is not given
PdfRow(id, name, path, uid, slid) ==
    [id |-> id, name |-> name, file_path |-> path, user_id |-> uid,
     shared_link_id |-> slid, shared_link |-> PublicURL(path), share_token |-> NULL]

RowsById(rows, id) == {r \in rows : r.id = id}

-----------------------------------------------------------------------------
(* Client state: one browser with one Dashboard (PDFUploader inside it).   *)

Uploads == 1..MaxUploads

NoFile == [name |-> <<>>, type |-> <<>>]
NoToast == [kind |-> "none", message |-> "none"]
ToastError(message) == [kind |-> "error", message |-> message]
ToastSuccess(message) == [kind |-> "success", message |-> message]

\* a call of uploadFile that has not started
IdleUpload ==
    [pc |-> "idle", file |-> NoFile, timestamp |-> 0, filename |-> <<>>,
     path |-> <<>>, userId |-> NULL, sent |-> {}, stored |-> {},
     record |-> {}, captured |-> <<>>, toast |-> NoToast]

Link(doc, kind, path) == [doc |-> doc, kind |-> kind, path |-> path]
NoLink == Link(0, "none", <<>>)

\* no call of handleEmailShare in flight
NoShare == [pc |-> "idle", doc |-> 0, token |-> NULL]

\* the SharedPDF page not open
NoShared ==
    [pc |-> "closed", rev |-> "none", who |-> Anon, path |-> <<>>, pdf |-> {},
     toast |-> NoToast, navigated |-> FALSE]

\* the PDFView page not open; `handlers` are the realtime handlers waiting
\* for their profile lookup, `stale` those whose channel has been removed
\* since, `toasts` the comments a "Comment added! by ..." toast was shown for;
\* `pdf`, `error` and `navigated` are what loadPDF left
NoView ==
    [pc |-> "closed", rev |-> "none", pdfId |-> 0, data |-> <<>>, list |-> <<>>,
     handlers |-> {}, stale |-> {}, toasts |-> {}, pdf |-> {}, error |-> NoToast,
     navigated |-> FALSE]

\* the comment form with an empty draft and no call of addComment
NoCompose ==
    [pc |-> "idle", page |-> "none", doc |-> 0, draft |-> <<>>, arg |-> <<>>,
     userId |-> NULL, calls |-> 0, inserts |-> {}, list |-> <<>>, toast |-> NoToast]

\* no call of handleDelete in flight
NoDelete == [pc |-> "idle", id |-> 0, path |-> <<>>, captured |-> <<>>, toast |-> NoToast]

\* no viewer mounted; in a mounted one useState<number | null>(null) for
\* numPages (0 stands for null) and useState(1) for pageNumber
NoPager == [page |-> "none", doc |-> 0, file |-> 0, numPages |-> 0, pageNumber |-> 1]

InitClient ==
    /\ up = [i \in Uploads |-> IdleUpload]
    /\ uploading = FALSE
    /\ dashPdfs = <<>>
    /\ clipboard = NoLink
    /\ links = {}
    /\ share = NoShare
    /\ shared = NoShared
    /\ view = NoView
    /\ feed = <<>>
    /\ compose = NoCompose
    /\ del = NoDelete
    /\ pager = NoPager

-----------------------------------------------------------------------------
(* Specification SpecPolicy: arbitrary requests against the data layer.    *)
(* Any holder of the project's public API key can send any of them.        *)

NoResp ==
    [op |-> "none", uid |-> Anon, cred |-> NULL, doc |-> 0, key |-> <<>>,
     col |-> "none", before |-> {}, sent |-> {}, result |-> "none", data |-> {}]

\* object keys used by the direct requests: one per document
PolicyKey(id) == Filename(id, ReportName)
PolicyKeys == {PolicyKey(id) : id \in 1..MaxDocs}

InitDb ==
    /\ pdfs = {}
    /\ bucket = {}
    /\ comments = {}
    /\ profiles = [u \in Users |-> "name-" \o u]
    /\ nextId = 0
    /\ nextTok = 0
    /\ clock = 9

InitPolicy == InitDb /\ resp = NoResp /\ session = NULL /\ InitClient

ApiSelectPdf(req, id) ==
    LET data == VisiblePdfs(req, RowsById(pdfs, id)) IN
    /\ resp = NoResp
    /\ UNCHANGED clientVars
    /\ resp' = [NoResp EXCEPT !.op = "select", !.uid = req.uid, !.cred = req.cred,
                              !.doc = id, !.before = RowsById(pdfs, id),
                              !.result = IF data = {} THEN "norows" ELSE "ok",
                              !.data = data]
    /\ UNCHANGED dbVars

ApiInsertPdf(req, owner, k) ==
    LET slid == IF k = 0 THEN NULL ELSE Uuid(k)
        row == PdfRow(nextId + 1, ReportName, PolicyKey(nextId + 1), owner, slid)
        res == PdfsInsertResult(req, row, pdfs) IN
    /\ resp = NoResp
    /\ UNCHANGED clientVars
    /\ nextId < MaxDocs
    /\ req.cred = NULL
    \* explicit NULL, the column default gen_random_uuid(), or a value in use
    /\ \/ k = 0
       \/ k = nextTok + 1 /\ k <= MaxTokens
       \/ k > 0 /\ \E r \in pdfs : r.shared_link_id = Uuid(k)
    /\ resp' = [NoResp EXCEPT !.op = "insert", !.uid = req.uid, !.cred = req.cred,
                              !.doc = row.id, !.sent = {row}, !.result = res,
                              !.data = IF res = "ok" THEN {row} ELSE {}]
    /\ pdfs' = IF res = "ok" THEN pdfs \cup {row} ELSE pdfs
    /\ nextId' = IF res = "ok" THEN nextId + 1 ELSE nextId
    /\ nextTok' = IF res = "ok" /\ k > nextTok THEN k ELSE nextTok
    /\ UNCHANGED <<bucket, comments, profiles, clock>>

\* the patches of the direct UPDATE requests: a share credential or an owner
Patched(old, col, val) ==
    IF col = "share_token" THEN [old EXCEPT !.share_token = val]
    ELSE IF col = "shared_link_id" THEN [old EXCEPT !.shared_link_id = val]
    ELSE [old EXCEPT !.user_id = val]

ApiUpdatePdf(req, id, col, val) ==
    LET before == RowsById(pdfs, id) IN
    /\ resp = NoResp
    /\ UNCHANGED clientVars
    \* an owner, a newly generated token, or a credential another row holds
    /\ \/ col = "user_id" /\ val \in Users
       \/ col = "share_token" /\ nextTok < MaxTokens /\ val = Uuid(nextTok + 1)
       \/ col = "share_token" /\ \E r \in pdfs : r.id # id /\ r.share_token = val
       \/ col = "shared_link_id" /\ \E r \in pdfs : r.id # id /\ r.shared_link_id = val
    /\ IF before = {}
       THEN /\ resp' = [NoResp EXCEPT !.op = "update", !.uid = req.uid,
                                      !.cred = req.cred, !.doc = id,
                                      !.col = col, !.result = "norows"]
            /\ UNCHANGED dbVars
       ELSE LET old == CHOOSE r \in before : TRUE
                new == Patched(old, col, val)
                res == PdfsUpdateResult(req, old, new, pdfs) IN
            /\ resp' = [NoResp EXCEPT !.op = "update", !.uid = req.uid,
                                      !.cred = req.cred, !.doc = id,
                                      !.col = col, !.before = before,
                                      !.result = res,
                                      !.data = IF res = "ok" THEN {new} ELSE {}]
            /\ pdfs' = IF res = "ok" THEN (pdfs \ {old}) \cup {new} ELSE pdfs
            /\ nextTok' = IF res = "ok" /\ col = "share_token" /\ val # NULL
                          THEN nextTok + 1 ELSE nextTok
            /\ UNCHANGED <<bucket, comments, profiles, nextId, clock>>

ApiDeletePdf(req, id) ==
    LET before == RowsById(pdfs, id)
        gone == {r \in before : PdfsDeleteResult(req, r) = "ok"} IN
    /\ resp = NoResp
    /\ UNCHANGED clientVars
    /\ resp' = [NoResp EXCEPT !.op = "delete", !.uid = req.uid, !.cred = req.cred,
                              !.doc = id, !.before = before,
                              !.result = IF gone = {} THEN "norows" ELSE "ok",
                              !.data = comments \ CascadeDelete(comments, gone)]
    /\ pdfs' = pdfs \ gone
    /\ comments' = CascadeDelete(comments, gone)
    /\ UNCHANGED <<bucket, profiles, nextId, nextTok, clock>>

ApiStorageUpload(req, key) ==
    LET ok == StorageCanInsert(req, "pdfs") /\ key \notin bucket IN
    /\ resp = NoResp
    /\ UNCHANGED clientVars
    /\ resp' = [NoResp EXCEPT !.op = "upload", !.uid = req.uid, !.cred = req.cred,
                              !.key = key, !.result = IF ok THEN "ok" ELSE "denied"]
    /\ bucket' = IF ok THEN bucket \cup {key} ELSE bucket
    /\ UNCHANGED <<pdfs, comments, profiles, nextId, nextTok, clock>>

ApiStorageDownload(req, key) ==
    LET ok == StorageCanSelect(req, "pdfs") /\ key \in bucket IN
    /\ resp = NoResp
    /\ UNCHANGED clientVars
    /\ resp' = [NoResp EXCEPT !.op = "download", !.uid = req.uid, !.cred = req.cred,
                              !.key = key, !.result = IF ok THEN "ok" ELSE "norows",
                              !.before = {r \in pdfs : r.file_path = key}]
    /\ UNCHANGED dbVars

ApiStorageRemove(req, key) ==
    LET ok == StorageCanDelete(req, "pdfs") /\ key \in bucket IN
    /\ resp = NoResp
    /\ UNCHANGED clientVars
    /\ resp' = [NoResp EXCEPT !.op = "remove", !.uid = req.uid, !.cred = req.cred,
                              !.key = key, !.result = IF ok THEN "ok" ELSE "norows"]
    /\ bucket' = IF ok THEN bucket \ {key} ELSE bucket
    /\ UNCHANGED <<pdfs, comments, profiles, nextId, nextTok, clock>>

CommentRow(id, pdf_id, author, at, content) ==
    [id |-> id, pdf_id |-> pdf_id, user_id |-> author, created_at |-> at,
     content |-> content]

ApiInsertComment(req, pdf_id, author) ==
    LET c == CommentRow(Cardinality(comments) + 1, pdf_id, author, clock, <<"a">>)
        res == CommentsInsertResult(req, c, pdfs) IN
    /\ resp = NoResp
    /\ UNCHANGED clientVars
    /\ Cardinality(comments) < MaxComments
    /\ req.cred = NULL
    /\ resp' = [NoResp EXCEPT !.op = "comment", !.uid = req.uid, !.cred = req.cred,
                              !.doc = pdf_id, !.sent = {c}, !.result = res]
    /\ comments' = IF res = "ok" THEN comments \cup {c} ELSE comments
    /\ UNCHANGED <<pdfs, bucket, profiles, nextId, nextTok, clock>>

ApiSelectComments(req, pdf_id) ==
    LET data == VisibleComments(req, {c \in comments : c.pdf_id = pdf_id}, pdfs) IN
    /\ resp = NoResp
    /\ UNCHANGED clientVars
    /\ resp' = [NoResp EXCEPT !.op = "comments", !.uid = req.uid, !.cred = req.cred,
                              !.doc = pdf_id, !.before = RowsById(pdfs, pdf_id),
                              !.result = "ok", !.data = data]
    /\ UNCHANGED dbVars

\* the response is consumed before the next request is sent
ApiConsume ==
    /\ resp # NoResp
    /\ resp' = NoResp
    /\ UNCHANGED clientVars
    /\ UNCHANGED dbVars

Requests == {Request(uid, cred) : uid \in Requesters, cred \in Tokens \cup {NULL}}

NextPolicy ==
    \/ \E req \in Requests, id \in 1..MaxDocs : ApiSelectPdf(req, id)
    \/ \E req \in Requests, owner \in Users, k \in 0..MaxTokens :
          ApiInsertPdf(req, owner, k)
    \/ \E req \in Requests, id \in 1..MaxDocs, col \in {"share_token", "user_id"},
          val \in Users \cup Tokens : ApiUpdatePdf(req, id, col, val)
    \/ \E req \in Requests, id \in 1..MaxDocs : ApiDeletePdf(req, id)
    \/ \E req \in Requests, id \in 1..MaxDocs, author \in Users \cup {NULL} :
          ApiInsertComment(req, id, author)
    \/ \E req \in Requests, id \in 1..MaxDocs : ApiSelectComments(req, id)
    \/ ApiConsume

SpecPolicy == InitPolicy /\ [][NextPolicy]_vars

(* Specification SpecStorage: requests against the bucket, next to the     *)
(* metadata rows that name the objects.                                    *)

NextStorage ==
    \/ \E req \in Requests, owner \in Users, k \in 0..MaxTokens :
          ApiInsertPdf(req, owner, k)
    \/ \E req \in Requests, id \in 1..MaxDocs : ApiSelectPdf(req, id)
    \/ \E req \in Requests, key \in PolicyKeys : ApiStorageUpload(req, key)
    \/ \E req \in Requests, key \in PolicyKeys : ApiStorageDownload(req, key)
    \/ \E req \in Requests, key \in PolicyKeys : ApiStorageRemove(req, key)
    \/ ApiConsume

SpecStorage == InitPolicy /\ [][NextStorage]_vars

-----------------------------------------------------------------------------
(* Specification SpecUpload: PDFUploader.uploadFile, one step per await.   *)

\* the request the browser sends with the session it holds
SessionRequest == Request(IF session = NULL THEN Anon ELSE session, NULL)

\* !file.type.includes('pdf') is the reason to reject
AcceptsFileByName(file) == Includes(file.name, <<"p", "d", "f">>)
AcceptsFile(file) == Includes(file.type, <<"p", "d", "f">>)

\* a catch block that ends the call without telling the user
ThrownSilent(u, message) == [u EXCEPT !.pc = "done"]
\* the `finally` block and the `catch` block of uploadFile
Thrown(u, message) == [u EXCEPT !.pc = "done", !.toast = ToastError(message)]

\* the object given to insert([...])
UploadRowSanitized(id, u) ==
    PdfRow(id, SanitizeName(u.file.name), u.path, u.userId, NULL)
UploadRow(id, u) == PdfRow(id, u.file.name, u.path, u.userId, NULL)

\* handleDrop / handleChange call uploadFile(file): the code up to the first
\* await. A rejected file throws before any request is made.
UploadFile(i, file) ==
    /\ up[i].pc = "idle"
    /\ \A j \in 1..(i - 1) : up[j].pc # "idle"
    /\ IF ~AcceptsFile(file)
       THEN /\ up' = [up EXCEPT ![i] =
                        Thrown([@ EXCEPT !.file = file, !.captured = dashPdfs],
                               "Please upload a PDF file")]
            /\ uploading' = FALSE
       ELSE /\ up' = [up EXCEPT ![i] =
                        [@ EXCEPT !.pc = "upload", !.file = file,
                                  !.captured = dashPdfs,
                                  !.timestamp = clock,
                                  !.filename = Filename(clock, file.name),
                                  !.sent = {"upload"}]]
            /\ uploading' = TRUE
    /\ UNCHANGED <<dbVars, resp, session, dashPdfs, pageVars, viewVars>>

\* storage.from('pdfs').upload(filename, file, {upsert: false}) answers;
\* on success the code goes on to auth.getUser()
UploadResponse(i, netOk) ==
    LET u == up[i]
        ok == /\ netOk
              /\ StorageCanInsert(SessionRequest, "pdfs")
              /\ u.filename \notin bucket IN
    /\ u.pc = "upload"
    /\ IF ok
       THEN /\ bucket' = bucket \cup {u.filename}
            /\ up' = [up EXCEPT ![i] =
                        [@ EXCEPT !.pc = "getUser", !.path = u.filename,
                                  !.stored = @ \cup {u.filename},
                                  !.sent = @ \cup {"getUser"}]]
            /\ UNCHANGED uploading
       ELSE /\ up' = [up EXCEPT ![i] = Thrown(@, "Failed to upload file to storage")]
            /\ uploading' = FALSE
            /\ UNCHANGED bucket
    /\ UNCHANGED <<pdfs, comments, profiles, nextId, nextTok, clock, resp,
                   session, dashPdfs, pageVars, viewVars>>

\* auth.getUser() answers; on success the code goes on to the insert
GetUserResponse(i, netOk) ==
    /\ up[i].pc = "getUser"
    /\ IF netOk /\ session # NULL
       THEN /\ up' = [up EXCEPT ![i] =
                        [@ EXCEPT !.pc = "insert", !.userId = session,
                                  !.sent = @ \cup {"insert"}]]
            /\ UNCHANGED uploading
       ELSE /\ up' = [up EXCEPT ![i] = Thrown(@, "User not authenticated")]
            /\ uploading' = FALSE
    /\ UNCHANGED <<dbVars, resp, session, dashPdfs, pageVars, viewVars>>

\* from('pdfs').insert([...]).select().single() answers; on success
\* onUploadComplete(pdf) runs: Dashboard's (pdf) => setPdfs([pdf, ...pdfs])
\* with the list its render captured
InsertResponse(i, netOk) ==
    LET u == up[i]
        row == UploadRow(nextId + 1, u)
        res == IF netOk THEN PdfsInsertResult(SessionRequest, row, pdfs)
               ELSE "failed"
        data == VisiblePdfs(SessionRequest, {row}) IN
    /\ u.pc = "insert"
    /\ IF res = "ok" /\ data # {}
       THEN /\ pdfs' = pdfs \cup {row}
            /\ nextId' = nextId + 1
            /\ up' = [up EXCEPT ![i] =
                        [@ EXCEPT !.pc = "done", !.record = data,
                                  !.toast = ToastSuccess("PDF uploaded successfully!")]]
            /\ dashPdfs' = <<row>> \o u.captured
       ELSE /\ up' = [up EXCEPT ![i] = Thrown(@, "Failed to create database record")]
            /\ UNCHANGED <<pdfs, nextId, dashPdfs>>
    /\ uploading' = FALSE
    /\ UNCHANGED <<bucket, comments, profiles, nextTok, clock, resp, session,
                   pageVars, viewVars>>

\* a millisecond passes
Tick ==
    /\ clock < MaxClock
    /\ clock' = clock + 1
    /\ UNCHANGED <<pdfs, bucket, comments, profiles, nextId, nextTok, resp,
                   clientVars>>

\* supabase.auth.signOut(): the session ends while requests may be in flight
SignOut ==
    /\ session # NULL
    /\ session' = NULL
    /\ UNCHANGED <<dbVars, resp, up, uploading, dashPdfs, pageVars, viewVars>>

InitUpload == InitDb /\ resp = NoResp /\ session \in Users /\ InitClient

NextUpload ==
    \/ \E i \in Uploads, file \in Files : UploadFile(i, file)
    \/ \E i \in Uploads, netOk \in BOOLEAN : UploadResponse(i, netOk)
    \/ \E i \in Uploads, netOk \in BOOLEAN : GetUserResponse(i, netOk)
    \/ \E i \in Uploads, netOk \in BOOLEAN : InsertResponse(i, netOk)
    \/ Tick
    \/ SignOut

SpecUpload == InitUpload /\ [][NextUpload]_vars

(* Specification SpecCreate: the uploader next to direct INSERT requests   *)
(* on pdfs by any requester, for any owner.                                *)

NextCreate ==
    \/ \E i \in Uploads, name \in {ReportName, OddName} :
          UploadFile(i, [name |-> name, type |-> PdfType])
    \/ \E i \in Uploads : UploadResponse(i, TRUE)
    \/ \E i \in Uploads : GetUserResponse(i, TRUE)
    \/ \E i \in Uploads, netOk \in BOOLEAN : InsertResponse(i, netOk)
    \/ SignOut
    \/ \E req \in Requests, owner \in Users : ApiInsertPdf(req, owner, 0)
    \/ ApiConsume

SpecCreate == InitUpload /\ [][NextCreate]_vars

-----------------------------------------------------------------------------
(* Specification SpecShare: the Dashboard share actions and the SharedPDF  *)
(* page that opens the links. A URL path is the list of its segments.      *)

\* `${value}` in a template literal
TemplateText(v) == IF v = NULL THEN "null" ELSE v

BucketUrlSegments ==
    <<"https:", "", "mshzrnauafqpdarzefkc.supabase.co", "storage", "v1",
      "object", "public", "pdfs">>

\* the segments of `${bucketUrl}/${key}`: the key holds no '/'
UrlSegments(url) == BucketUrlSegments \o <<SubSeq(url, 3, Len(url))>>

\* Dashboard.loadPDFs: the user's rows, newest first (ids grow with time)
RECURSIVE NewestFirst(_)
NewestFirst(rows) ==
    IF rows = {} THEN <<>>
    ELSE LET r == CHOOSE x \in rows : \A y \in rows : y.id <= x.id IN
         <<r>> \o NewestFirst(rows \ {r})

LoadPDFs ==
    /\ session # NULL
    /\ dashPdfs' = NewestFirst({r \in VisiblePdfs(SessionRequest, pdfs) :
                                   r.user_id = session})
    /\ UNCHANGED <<dbVars, resp, session, up, uploading, pageVars, viewVars>>

\* Dashboard.copyShareLink: `${origin}/shared/${pdf.shared_link_id}`
CopyShareLink(n) ==
    /\ n \in 1..Len(dashPdfs)
    /\ clipboard' = Link(dashPdfs[n].id, "copy",
                          <<"shared", TemplateText(dashPdfs[n].shared_link_id)>>)
    /\ UNCHANGED <<dbVars, resp, session, up, uploading, dashPdfs, links, share,
                   shared, viewVars, compose,
                   del,
                   pager>>

\* copyShareLink of the revision with the email invite:
\* `${origin}/shared/${pdf.shared_link}`
CopyShareLinkUrl(n) ==
    /\ n \in 1..Len(dashPdfs)
    /\ clipboard' = Link(dashPdfs[n].id, "copyUrl",
                          <<"shared">> \o UrlSegments(dashPdfs[n].shared_link))
    /\ UNCHANGED <<dbVars, resp, session, up, uploading, dashPdfs, links, share,
                   shared, viewVars, compose,
                   del,
                   pager>>

\* handleEmailShare up to its first await, for an address typed into the
\* prompt: the token is read from the row of the Dashboard list
EmailShareStart(n) ==
    /\ share.pc = "idle"
    /\ n \in 1..Len(dashPdfs)
    /\ LET pdf == dashPdfs[n] IN
       IF pdf.share_token # NULL
       THEN /\ links' = links \cup
                  {Link(pdf.id, "email", <<"shared", TemplateText(pdf.share_token)>>)}
            /\ UNCHANGED <<share, nextTok>>
       ELSE /\ nextTok < MaxTokens
            /\ nextTok' = nextTok + 1
            /\ share' = [pc |-> "update", doc |-> pdf.id, token |-> Uuid(nextTok + 1)]
            /\ UNCHANGED links
    /\ UNCHANGED <<pdfs, bucket, comments, profiles, nextId, clock, resp,
                   session, up, uploading, dashPdfs, clipboard, shared, viewVars, compose,
                   del,
                   pager>>

\* update({share_token}).eq('id', pdf.id) answers; an update that matches no
\* row is no error. The Dashboard list is not refreshed.
EmailShareUpdated(netOk) ==
    LET olds == RowsById(pdfs, share.doc)
        news == {Patched(old, "share_token", share.token) : old \in olds}
        res == IF ~netOk THEN "failed"
               ELSE IF olds = {} THEN "norows"
               ELSE LET old == CHOOSE r \in olds : TRUE IN
                    PdfsUpdateResult(SessionRequest, old,
                                     Patched(old, "share_token", share.token), pdfs) IN
    /\ share.pc = "update"
    /\ pdfs' = IF res = "ok" THEN (pdfs \ olds) \cup news ELSE pdfs
    /\ links' = IF res \in {"ok", "norows"}
                THEN links \cup {Link(share.doc, "email",
                                      <<"shared", TemplateText(share.token)>>)}
                ELSE links
    /\ share' = NoShare
    /\ UNCHANGED <<bucket, comments, profiles, nextId, nextTok, clock, resp,
                   session, up, uploading, dashPdfs, clipboard, shared, viewVars, compose,
                   del,
                   pager>>

\* <Route path="/shared/:id">
RouteMatches(path) == Len(path) = 2 /\ path[1] = "shared"

\* the column the page filters on
SharedColumnSwapped(rev) == IF rev = "current" THEN "shared_link_id" ELSE "share_token"
SharedColumn(rev) == IF rev = "current" THEN "share_token" ELSE "shared_link_id"

\* .eq(column, value) with a text value
MatchShared(rows, rev, value) == {r \in rows : SqlEq(r[SharedColumn(rev)], value)}

\* .single(): the row when there is exactly one, an error otherwise
Single(rows) == IF Cardinality(rows) = 1 THEN rows ELSE {}

\* createSignedUrl(file_path, 60) / getPublicUrl(file_path)
SignedUrl(req, path) ==
    IF StorageCanSelect(req, "pdfs") /\ path \in bucket THEN <<"signed", "/">> \o path
    ELSE <<>>
PageUrl(rev, req, path) ==
    IF rev = "current" THEN SignedUrl(req, path) ELSE PublicURL(path)

\* a visitor `who` opens the path: SharedPDF mounts and runs fetchSharedPDF
\* (current revision) or loadPDF (earlier revision, which first asks the
\* server to set request.shared_link_id; whether that takes effect is open)
OpenShared(rev, who, path, claimSet) ==
    /\ shared.pc = "closed"
    /\ IF ~RouteMatches(path)
       THEN shared' = [NoShared EXCEPT !.pc = "done", !.who = who, !.path = path]
       ELSE LET value == path[2]
                req == Request(who, IF rev = "current" \/ claimSet THEN value ELSE NULL)
                data == Single(MatchShared(VisiblePdfs(req, pdfs), rev, value)) IN
            shared' =
              IF data = {}
              THEN [NoShared EXCEPT !.pc = "done", !.rev = rev, !.who = who,
                      !.path = path,
                      !.toast = IF rev = "current"
                                THEN ToastError("Shared PDF not found.")
                                ELSE ToastError("Failed to load PDF"),
                      !.navigated = (rev = "current")]
              ELSE [NoShared EXCEPT !.pc = "done", !.rev = rev, !.who = who,
                      !.path = path,
                      !.pdf = {[r EXCEPT !.file_path = PageUrl(rev, req, r.file_path)] :
                                  r \in data}]
    /\ UNCHANGED <<dbVars, resp, session, up, uploading, dashPdfs, clipboard,
                   links, share, viewVars, compose,
                   del,
                   pager>>

\* the visitor leaves the page
CloseShared ==
    /\ shared.pc = "done"
    /\ shared' = NoShared
    /\ UNCHANGED <<dbVars, resp, session, up, uploading, dashPdfs, clipboard,
                   links, share, viewVars, compose,
                   del,
                   pager>>

\* the file every upload of this specification offers
ShareFile == [name |-> ReportName, type |-> PdfType]
Revisions == {"current", "earlier"}
\* the paths a visitor opens: a link produced so far, or a typed token
ProducedLinks == links \cup ({clipboard} \ {NoLink})
OpenPaths == {l.path : l \in ProducedLinks} \cup {<<"shared", t>> : t \in Tokens}

InitShare == InitDb /\ resp = NoResp /\ session \in Users /\ InitClient

NextShare ==
    \/ ApiInsertPdf(SessionRequest, session, nextTok + 1)
    \/ ApiConsume
    \/ UploadFile(1, ShareFile)
    \/ UploadResponse(1, TRUE)
    \/ GetUserResponse(1, TRUE)
    \/ InsertResponse(1, TRUE)
    \/ LoadPDFs
    \/ \E n \in 1..(MaxDocs + 1) : CopyShareLink(n)
    \/ \E n \in 1..(MaxDocs + 1) : CopyShareLinkUrl(n)
    \/ \E n \in 1..(MaxDocs + 1) : EmailShareStart(n)
    \/ \E netOk \in BOOLEAN : EmailShareUpdated(netOk)
    \/ \E rev \in Revisions, who \in Requesters, path \in OpenPaths,
          claimSet \in BOOLEAN : OpenShared(rev, who, path, claimSet)
    \/ CloseShared

SpecShare == InitShare /\ [][NextShare]_vars

(* Specification SpecTokens: the share credentials of two documents under  *)
(* the email-share action and direct updates of the credential columns.    *)

NextTokens ==
    \/ ApiInsertPdf(SessionRequest, session, nextTok + 1)
    \/ ApiConsume
    \/ UploadFile(1, ShareFile)
    \/ UploadResponse(1, TRUE)
    \/ GetUserResponse(1, TRUE)
    \/ InsertResponse(1, TRUE)
    \/ LoadPDFs
    \/ \E n \in 1..(MaxDocs + 1) : EmailShareStart(n)
    \/ \E netOk \in BOOLEAN : EmailShareUpdated(netOk)
    \/ \E u \in Users, id \in 1..(MaxDocs + 1),
          col \in {"share_token", "shared_link_id"}, val \in Tokens :
          ApiUpdatePdf(Request(u, NULL), id, col, val)

SpecTokens == InitShare /\ [][NextTokens]_vars

-----------------------------------------------------------------------------
(* Specification SpecDashboard: the Dashboard list under loads, uploads    *)
(* and deletes started from the page.                                      *)

\* handleDelete(id) is called from the nth entry of the list on display: the
\* row is found in the list the render captured, storage remove is sent
HandleDelete(n) ==
    /\ del.pc \in {"idle", "done"}
    /\ n \in 1..Len(dashPdfs)
    /\ del' = [NoDelete EXCEPT !.pc = "storage", !.id = dashPdfs[n].id,
                               !.path = dashPdfs[n].file_path,
                               !.captured = dashPdfs]
    /\ UNCHANGED <<dbVars, resp, session, up, uploading, dashPdfs, clipboard,
                   links, share, shared, compose, viewVars,
                   pager>>

\* a handler that goes on to the row whatever storage answered
DeleteStorageResponseIgnored(netOk) ==
    /\ del.pc = "storage"
    /\ bucket' = IF netOk /\ StorageCanDelete(SessionRequest, "pdfs")
                 THEN bucket \ {del.path} ELSE bucket
    /\ del' = [del EXCEPT !.pc = "row"]
    /\ UNCHANGED <<pdfs, comments, profiles, nextId, nextTok, clock, resp, session,
                   up, uploading, dashPdfs, clipboard, links, share, shared,
                   compose, viewVars,
                   pager>>

\* storage.from('pdfs').remove([pdf.file_path]) answers: an error is thrown
\* to the catch block; without one (objects the policies hide are skipped
\* without an error) the delete of the row is sent
DeleteStorageResponse(netOk) ==
    /\ del.pc = "storage"
    /\ IF netOk
       THEN /\ bucket' = IF StorageCanDelete(SessionRequest, "pdfs")
                         THEN bucket \ {del.path} ELSE bucket
            /\ del' = [del EXCEPT !.pc = "row"]
       ELSE /\ del' = [del EXCEPT !.pc = "done",
                                  !.toast = ToastError("Failed to delete PDF")]
            /\ UNCHANGED bucket
    /\ UNCHANGED <<pdfs, comments, profiles, nextId, nextTok, clock, resp, session,
                   up, uploading, dashPdfs, clipboard, links, share, shared,
                   compose, viewVars,
                   pager>>

\* from('pdfs').delete().eq('id', id) answers: an error is thrown to the
\* catch block; without one (rows the policy hides are skipped without an
\* error) setPdfs(pdfs.filter(p => p.id !== id)) runs on the captured list
DeleteRowResponse(netOk) ==
    LET gone == {r \in RowsById(pdfs, del.id) :
                    PdfsDeleteResult(SessionRequest, r) = "ok"} IN
    /\ del.pc = "row"
    /\ IF netOk
       THEN /\ pdfs' = pdfs \ gone
            /\ comments' = CascadeDelete(comments, gone)
            /\ dashPdfs' = SelectSeq(del.captured, LAMBDA p : p.id # del.id)
            /\ del' = [del EXCEPT !.pc = "done",
                                  !.toast = ToastSuccess("PDF deleted successfully")]
       ELSE /\ del' = [del EXCEPT !.pc = "done",
                                  !.toast = ToastError("Failed to delete PDF")]
            /\ UNCHANGED <<pdfs, comments, dashPdfs>>
    /\ UNCHANGED <<bucket, profiles, nextId, nextTok, clock, resp, session, up,
                   uploading, clipboard, links, share, shared, compose, viewVars,
                   pager>>

NextDashboard ==
    \/ LoadPDFs
    \/ \E i \in Uploads, name \in {ReportName, OddName} :
          UploadFile(i, [name |-> name, type |-> PdfType])
    \/ \E i \in Uploads : UploadResponse(i, TRUE)
    \/ \E i \in Uploads : GetUserResponse(i, TRUE)
    \/ \E i \in Uploads : InsertResponse(i, TRUE)
    \/ \E n \in 1..MaxUploads : HandleDelete(n)
    \/ \E netOk \in BOOLEAN : DeleteStorageResponse(netOk)
    \/ \E netOk \in BOOLEAN : DeleteRowResponse(netOk)
    \/ SignOut

SpecDashboard == InitUpload /\ [][NextDashboard]_vars

-----------------------------------------------------------------------------
(* Specification SpecPager: the page controls of PDFView and SharedPDF.    *)
(* `doc` is the id of the route, `file` the document whose file the        *)
(* Document component has loaded (0: none yet).                            *)

\* the number of pages of the file of document id (files do not change)
FilePages(id) == ((id - 1) % MaxPages) + 1

\* a viewer mounts on the route of document id
MountPager(page, id) ==
    /\ pager.page = "none"
    /\ pager' = [NoPager EXCEPT !.page = page, !.doc = id]
    /\ UNCHANGED <<dbVars, resp, session, up, uploading, dashPdfs, clipboard,
                   links, share, shared, compose, del, viewVars>>

\* the route changes to another document while the viewer stays mounted:
\* the effect on [id] loads the other document, the state is kept
ChangeDocument(id) ==
    /\ pager.page # "none"
    /\ id # pager.doc
    /\ pager' = [pager EXCEPT !.doc = id]
    /\ UNCHANGED <<dbVars, resp, session, up, uploading, dashPdfs, clipboard,
                   links, share, shared, compose, del, viewVars>>

\* onLoadSuccess={({ numPages }) => setNumPages(numPages)}
OnLoadSuccess ==
    /\ pager.page # "none"
    /\ pager.file # pager.doc
    /\ pager' = [pager EXCEPT !.file = pager.doc,
                              !.numPages = FilePages(pager.doc)]
    /\ UNCHANGED <<dbVars, resp, session, up, uploading, dashPdfs, clipboard,
                   links, share, shared, compose, del, viewVars>>

\* Prev: disabled={pageNumber <= 1}, Math.max(prev - 1, 1)
PrevPage ==
    /\ pager.page # "none"
    /\ ~(pager.pageNumber <= 1)
    /\ pager' = [pager EXCEPT
                   !.pageNumber = IF @ - 1 > 1 THEN @ - 1 ELSE 1]
    /\ UNCHANGED <<dbVars, resp, session, up, uploading, dashPdfs, clipboard,
                   links, share, shared, compose, del, viewVars>>

\* Next.  PDFView: disabled={pageNumber >= (numPages || 1)},
\* Math.min(prev + 1, numPages || prev).  SharedPDF: disabled={numPages !==
\* null ? pageNumber >= numPages : false}, numPages ? Math.min(prev + 1,
\* numPages) : prev
NextPage ==
    LET n == pager.numPages
        prev == pager.pageNumber
        disabled == IF pager.page = "view"
                    THEN prev >= (IF n # 0 THEN n ELSE 1)
                    ELSE IF n # 0 THEN prev >= n ELSE FALSE
        limit == IF n # 0 THEN n ELSE prev IN
    /\ pager.page # "none"
    /\ ~disabled
    /\ pager' = [pager EXCEPT
                   !.pageNumber = IF prev + 1 < limit THEN prev + 1 ELSE limit]
    /\ UNCHANGED <<dbVars, resp, session, up, uploading, dashPdfs, clipboard,
                   links, share, shared, compose, del, viewVars>>

NextPager ==
    \/ \E page \in {"view", "shared"}, id \in 1..MaxViewed : MountPager(page, id)
    \/ \E id \in 1..MaxViewed : ChangeDocument(id)
    \/ OnLoadSuccess
    \/ PrevPage
    \/ NextPage

SpecPager == InitUpload /\ [][NextPager]_vars

-----------------------------------------------------------------------------
(* Specification SpecViewer: the comment list of the PDFView page, in the  *)
(* current revision (profile lookup in the realtime handler, newest first) *)
(* and in the earlier one (payload appended as it comes, oldest first).    *)

DisplayNames == {"Ann", "Bea"}

\* comments.order('created_at', {ascending}): ids grow with time
RECURSIVE OrderedComments(_, _)
OrderedComments(rows, ascending) ==
    IF rows = {} THEN <<>>
    ELSE LET first == CHOOSE x \in rows : \A y \in rows :
                        \/ x.created_at < y.created_at
                        \/ x.created_at = y.created_at /\ x.id <= y.id
             rest == OrderedComments(rows \ {first}, TRUE) IN
         IF ascending THEN <<first>> \o rest
         ELSE [k \in 1..(Len(rest) + 1) |-> (<<first>> \o rest)[Len(rest) + 2 - k]]

\* a comment as the page holds it: the row and its `user` (a name or null)
Entry(c, user) ==
    [id |-> c.id, pdf_id |-> c.pdf_id, user_id |-> c.user_id,
     created_at |-> c.created_at, user |-> user]

\* profile.name || 'Guest'
NameOrGuest(name) == IF name = NULL \/ name = "" THEN "Guest" ELSE name

\* the merge of loadComments with the mapping fetchUsersByIds returns
Merged(data) ==
    [k \in 1..Len(data) |->
        Entry(data[k], IF data[k].user_id # NULL
                       THEN NameOrGuest(profiles[data[k].user_id]) ELSE NULL)]

\* comment.user && comment.user.name ? comment.user.name : "Guest"
Label(e) == IF e.user # NULL /\ e.user # "" THEN e.user ELSE "Guest"

\* PDFView mounts for document id: loadComments is sent, the channel is
\* subscribed
OpenView(rev, id) ==
    /\ view.pc = "closed"
    /\ \E r \in pdfs : r.id = id
    /\ view' = [NoView EXCEPT !.pc = "query", !.rev = rev, !.pdfId = id,
                              !.stale = view.stale, !.toasts = view.toasts]
    /\ feed' = <<>>
    /\ UNCHANGED <<dbVars, resp, session, up, uploading, dashPdfs, pageVars>>

\* loadComments: the comments query answers; with no author among the rows
\* the list is set at once, otherwise fetchUsersByIds is sent
LoadCommentsData ==
    LET rows == VisibleComments(SessionRequest,
                                {c \in comments : c.pdf_id = view.pdfId}, pdfs)
        data == OrderedComments(rows, view.rev = "earlier") IN
    /\ view.pc = "query"
    /\ IF \A c \in rows : c.user_id = NULL
       THEN view' = [view EXCEPT !.pc = "ready", !.list = Merged(data)]
       ELSE view' = [view EXCEPT !.pc = "profiles", !.data = data]
    /\ UNCHANGED <<dbVars, resp, session, up, uploading, dashPdfs, pageVars, feed>>

\* loadComments: the profiles query answers, setComments(mergedComments)
LoadCommentsProfiles ==
    /\ view.pc = "profiles"
    /\ view' = [view EXCEPT !.pc = "ready", !.data = <<>>, !.list = Merged(view.data)]
    /\ UNCHANGED <<dbVars, resp, session, up, uploading, dashPdfs, pageVars, feed>>

\* a comment is committed for the document by `author` (null: a guest, whom
\* the comments table refuses); the open page's channel gets the INSERT event
\* if the viewer may read the row
PostComment(author, id) ==
    LET c == CommentRow(Cardinality(comments) + 1, id, author, clock, <<"a">>)
        req == Request(IF author = NULL THEN Anon ELSE author, NULL)
        res == CommentsInsertResult(req, c, pdfs) IN
    /\ Cardinality(comments) < MaxPosts
    /\ res = "ok"
    /\ comments' = comments \cup {c}
    /\ feed' = IF /\ view.pc # "closed"
                  /\ view.pdfId = id
                  /\ c \in VisibleComments(SessionRequest, {c}, pdfs)
               THEN Append(feed, c) ELSE feed
    /\ UNCHANGED <<pdfs, bucket, profiles, nextId, nextTok, clock, resp,
                   session, up, uploading, dashPdfs, pageVars, view>>

\* the channel hands the next INSERT event to the page's handler
StreamEvent ==
    /\ feed # <<>>
    /\ feed' = Tail(feed)
    /\ LET c == Head(feed) IN
       IF view.rev = "earlier"
       THEN view' = [view EXCEPT !.list = Append(@, Entry(c, NULL))]
       ELSE IF c.user_id # NULL
       THEN view' = [view EXCEPT !.handlers = @ \cup {c}]
       ELSE view' = [view EXCEPT !.list = <<Entry(c, "Guest")>> \o @,
                                 !.toasts = @ \cup {c.id}]
    /\ UNCHANGED <<dbVars, resp, session, up, uploading, dashPdfs, pageVars>>

\* a handler that ends at the profile answer without touching the list
HandlerProfileDropped(c) ==
    /\ c \in view.handlers
    /\ view' = [view EXCEPT !.handlers = @ \ {c}]
    /\ UNCHANGED <<dbVars, resp, session, up, uploading, dashPdfs, pageVars, feed>>

\* current revision: the handler's profile lookup answers, it prepends and
\* shows its toast
HandlerProfile(c) ==
    /\ c \in view.handlers
    /\ view' = [view EXCEPT
                  !.handlers = @ \ {c},
                  !.list = <<Entry(c, NameOrGuest(profiles[c.user_id]))>> \o @,
                  !.toasts = @ \cup {c.id}]
    /\ UNCHANGED <<dbVars, resp, session, up, uploading, dashPdfs, pageVars, feed>>

\* a user changes the display name of their profile
RenameProfile(u, name) ==
    /\ profiles[u] # name
    /\ profiles' = [profiles EXCEPT ![u] = name]
    /\ UNCHANGED <<pdfs, bucket, comments, nextId, nextTok, clock, resp, clientVars>>

InitViewer == InitDb /\ resp = NoResp /\ session \in Users /\ InitClient

NextViewer ==
    \/ ApiInsertPdf(SessionRequest, session, 0)
    \/ ApiConsume
    \/ \E rev \in Revisions, id \in 1..MaxDocs : OpenView(rev, id)
    \/ LoadCommentsData
    \/ LoadCommentsProfiles
    \/ \E author \in Users \cup {NULL}, id \in 1..MaxDocs : PostComment(author, id)
    \/ StreamEvent
    \/ \E c \in comments : HandlerProfile(c)
    \/ \E u \in Users, name \in DisplayNames : RenameProfile(u, name)

SpecViewer == InitViewer /\ [][NextViewer]_vars

-----------------------------------------------------------------------------
(* Specification SpecRealtime: the same page with its teardown (the        *)
(* effect's cleanup on unmount).  SpecRealtimeFair adds that a live        *)
(* channel delivers its events and that a handler's profile lookup is      *)
(* answered; SpecTimed adds the passing of time between the commits.       *)

\* the effect's cleanup: supabase.removeChannel(channel) / unsubscribe(); the
\* page is gone, handlers already awaiting their profile lookup go on
CloseView ==
    /\ view.pc # "closed"
    /\ view' = [NoView EXCEPT !.stale = view.stale \cup view.handlers,
                              !.toasts = view.toasts]
    /\ feed' = <<>>
    /\ UNCHANGED <<dbVars, resp, session, up, uploading, dashPdfs, pageVars>>

\* a handler started before the cleanup gets its profile answer: setComments
\* of the unmounted page has no effect, toast.success is called all the same
StaleHandlerProfile(c) ==
    /\ c \in view.stale
    /\ view' = [view EXCEPT !.stale = @ \ {c}, !.toasts = @ \cup {c.id}]
    /\ UNCHANGED <<dbVars, resp, session, up, uploading, dashPdfs, pageVars, feed>>

\* a loadPDF that tells a hidden row from a missing one
LoadPDFTelling(id) ==
    LET data == Single(VisiblePdfs(SessionRequest, RowsById(pdfs, id))) IN
    /\ view.pc = "closed"
    /\ session # NULL
    /\ view' = IF data = {}
               THEN [NoView EXCEPT !.pc = "failed", !.pdfId = id,
                       !.error = IF RowsById(pdfs, id) = {}
                                 THEN ToastError("Failed to load PDF")
                                 ELSE ToastError("Access denied"),
                       !.navigated = TRUE,
                       !.stale = view.stale, !.toasts = view.toasts]
               ELSE [NoView EXCEPT !.pc = "loaded", !.pdfId = id, !.pdf = data,
                       !.stale = view.stale, !.toasts = view.toasts]
    /\ UNCHANGED <<dbVars, resp, session, up, uploading, dashPdfs, pageVars, feed>>

\* PDFView.loadPDF for the id of the route: select('*').eq('id', id).single()
\* has an error when no row comes back (none stored, or none the policies
\* show); the catch block shows its toast and navigates to '/'
LoadPDF(id) ==
    LET data == Single(VisiblePdfs(SessionRequest, RowsById(pdfs, id))) IN
    /\ view.pc = "closed"
    /\ session # NULL
    /\ view' = IF data = {}
               THEN [NoView EXCEPT !.pc = "failed", !.pdfId = id,
                       !.error = ToastError("Failed to load PDF"),
                       !.navigated = TRUE,
                       !.stale = view.stale, !.toasts = view.toasts]
               ELSE [NoView EXCEPT !.pc = "loaded", !.pdfId = id, !.pdf = data,
                       !.stale = view.stale, !.toasts = view.toasts]
    /\ UNCHANGED <<dbVars, resp, session, up, uploading, dashPdfs, pageVars, feed>>

(* Specification SpecLookup: document lookups of the shared page (by       *)
(* token) and of PDFView (by id) against rows of both users.               *)

NextLookup ==
    \/ \E u \in Users, k \in 0..MaxTokens : ApiInsertPdf(Request(u, NULL), u, k)
    \/ \E u \in Users, id \in 1..MaxDocs, val \in Tokens :
          ApiUpdatePdf(Request(u, NULL), id, "share_token", val)
    \/ ApiConsume
    \/ \E rev \in Revisions, who \in Requesters, t \in Tokens, claimSet \in BOOLEAN :
          OpenShared(rev, who, <<"shared", t>>, claimSet)
    \/ CloseShared
    \/ \E id \in 1..(MaxDocs + 1) : LoadPDF(id)
    \/ CloseView

SpecLookup == InitViewer /\ [][NextLookup]_vars

NextRealtime ==
    \/ ApiInsertPdf(SessionRequest, session, 0)
    \/ ApiConsume
    \/ \E rev \in Revisions, id \in 1..MaxDocs : OpenView(rev, id)
    \/ LoadCommentsData
    \/ LoadCommentsProfiles
    \/ \E author \in Users \cup {NULL}, id \in 1..MaxDocs : PostComment(author, id)
    \/ StreamEvent
    \/ \E c \in comments : HandlerProfile(c)
    \/ CloseView
    \/ \E c \in comments : StaleHandlerProfile(c)

SpecRealtime == InitViewer /\ [][NextRealtime]_vars

SpecRealtimeFair ==
    /\ SpecRealtime
    /\ WF_vars(StreamEvent)
    /\ WF_vars(\E c \in comments : HandlerProfile(c))

NextTimed == NextRealtime \/ Tick

SpecTimed == InitViewer /\ [][NextTimed]_vars

-----------------------------------------------------------------------------
(* Access claims                                                           *)

\* the request presents a share credential of row d
Presents(cred, d) == SqlEq(d.shared_link_id, cred) \/ SqlEq(d.share_token, cred)

\* C1: a request authenticated as the owner of an existing document reads it,
\* deletes it and updates it (its share token unless another row holds the
\* value; any column unless the new row breaks WITH CHECK or a constraint); a
\* request authenticated as another user that presents no share credential
\* of the document gets no row back and leaves the row as it was.
C1_OwnerManagesOthersDenied ==
    \A d \in resp.before :
        /\ (resp.uid = d.user_id /\ resp.op = "select") =>
               resp.result = "ok" /\ resp.data = {d}
        /\ (resp.uid = d.user_id /\ resp.op = "delete") =>
               resp.result = "ok" /\ RowsById(pdfs, d.id) = {}
        /\ (resp.uid = d.user_id /\ resp.op = "update") =>
               /\ resp.result # "norows"
               /\ resp.col = "share_token" =>
                      \/ resp.result = "ok"
                      \/ /\ resp.result = "conflict"
                         /\ \E r \in pdfs : r.id # d.id /\ r.share_token # NULL
               /\ resp.result = "ok" =>
                      RowsById(pdfs, d.id) = resp.data
        /\ (resp.uid \in Users /\ resp.uid # d.user_id /\ ~Presents(resp.cred, d)
            /\ resp.op \in {"select", "update", "delete"}) =>
               /\ resp.result = "norows"
               /\ resp.data = {}
               /\ RowsById(pdfs, d.id) = {d}

\* C1 witness: a non-owner's update of an existing document was refused
C1_Witness ==
    /\ resp.op = "update"
    /\ resp.uid \in Users
    /\ \E d \in resp.before : resp.uid # d.user_id /\ RowsById(pdfs, d.id) = {d}

\* C2: an anonymous request presenting a document's non-null share credential
\* gets the document's row and all of the document's comments; no anonymous
\* update or delete changes a row of pdfs.
C2_AnonTokenReadOnly ==
    resp.uid = Anon =>
        /\ \A d \in resp.before :
              Presents(resp.cred, d) =>
                  /\ resp.op = "select" => resp.result = "ok" /\ resp.data = {d}
                  /\ resp.op = "comments" =>
                         resp.data = {c \in comments : c.pdf_id = d.id}
        /\ resp.op \in {"update", "delete"} =>
              /\ resp.result = "norows"
              /\ RowsById(pdfs, resp.doc) = resp.before

\* C2 witness: an anonymous request presenting the token read a comment
C2_Witness ==
    /\ resp.uid = Anon
    /\ resp.op = "comments"
    /\ resp.data # {}
    /\ \E d \in resp.before : Presents(resp.cred, d)

\* C3: a document with no share credential is visible only to its owner:
\* nobody else reads its row or its stored object.
C3_UnsharedVisibleOnlyToOwner ==
    \A d \in resp.before :
        (d.shared_link_id = NULL /\ d.share_token = NULL /\ resp.uid # d.user_id) =>
            /\ resp.op = "select" => resp.data = {}
            /\ resp.op = "download" => resp.result # "ok"

-----------------------------------------------------------------------------
(* Upload claims                                                           *)

PdfText == <<"p", "d", "f">>

\* C4: a call of uploadFile with a file whose declared MIME type does not
\* contain 'pdf' ends in its first step: no storage upload, no auth lookup
\* and no insert is issued, bucket and pdfs stay as they were,
\* onUploadComplete is not called (the Dashboard list is untouched) and an
\* error notification is shown; nothing of this changes afterwards.
C4_NonPdfRejectedBeforeNetwork ==
    /\ [](\A i \in Uploads :
            (up[i].pc # "idle" /\ ~Includes(up[i].file.type, PdfText))
            => /\ up[i].pc = "done"
               /\ up[i].sent = {}
               /\ up[i].stored = {}
               /\ up[i].record = {}
               /\ up[i].toast = ToastError("Please upload a PDF file"))
    /\ [][\A i \in Uploads :
            (up[i].pc = "idle" /\ up'[i].pc # "idle"
               /\ ~Includes(up'[i].file.type, PdfText))
            => /\ bucket' = bucket
               /\ pdfs' = pdfs
               /\ dashPdfs' = dashPdfs]_vars

C4_Witness ==
    \E i \in Uploads :
        /\ up[i].pc = "done"
        /\ up[i].file = [name |-> ReportName, type |-> PngType]
        /\ up[i].toast.kind = "error"
        /\ \E j \in Uploads : up[j].toast.kind = "success"

\* C5: after a successful upload by user U of a file named N stored under
\* key K, the owner's read of the new row (select by id, single) returns
\* exactly one row with name = N, file_path = K, user_id = U, and the record
\* handed to onUploadComplete is that row.
C5_UploadRoundTrip ==
    \A i \in Uploads :
        up[i].toast.kind = "success"
        => \E rec \in up[i].record :
              LET read == VisiblePdfs(Request(up[i].userId, NULL),
                                      RowsById(pdfs, rec.id)) IN
              /\ up[i].record = {rec}
              /\ read = {rec}
              /\ up[i].stored = {rec.file_path}
              /\ rec.file_path \in bucket
              /\ rec.name = up[i].file.name
              /\ rec.user_id = up[i].userId
              /\ rec.user_id \in Users

C5_Witness ==
    \E i \in Uploads :
        /\ up[i].toast.kind = "success"
        /\ up[i].file.name = OddName
        /\ \E rec \in up[i].record : rec.name = OddName /\ rec.file_path # OddName

\* C6: for every upload that passed the type check, the storage key is the
\* decimal millisecond timestamp, '-', and the original name with every code
\* unit outside [A-Za-z0-9.-] replaced by '_' (same length, allowed code units
\* unchanged); the call stores no object but the one under that key, exactly
\* one once the storage request has succeeded; the row of a successful upload
\* has the uploader as owner and no share credential.
C6_KeyShapeOneObjectOwner ==
    \A i \in Uploads :
        (up[i].pc # "idle" /\ Includes(up[i].file.type, PdfText))
        => LET k == up[i].filename
               n == up[i].file.name
               t == NumberText(up[i].timestamp)
               stepsAfterUpload == {"getUser", "insert"} IN
           /\ up[i].timestamp \in 1..clock
           /\ Len(k) = Len(t) + 1 + Len(n)
           /\ SubSeq(k, 1, Len(t)) = t
           /\ k[Len(t) + 1] = "-"
           /\ \A j \in 1..Len(n) :
                 k[Len(t) + 1 + j] = IF n[j] \in AllowedChars THEN n[j] ELSE "_"
           /\ up[i].stored \subseteq {k}
           /\ (up[i].pc \in stepsAfterUpload \/ "getUser" \in up[i].sent)
                 => up[i].stored = {k} /\ k \in bucket
           /\ up[i].toast.kind = "success"
                 => \E rec \in pdfs :
                       /\ up[i].record = {rec}
                       /\ rec.file_path = k
                       /\ rec.user_id = up[i].userId
                       /\ rec.shared_link_id = NULL
                       /\ rec.share_token = NULL

C6_Witness ==
    \E i \in Uploads :
        /\ up[i].toast.kind = "success"
        /\ up[i].file.name = OddName
        /\ up[i].timestamp = MaxClock
        /\ up[i].filename = <<"1", "0", "-", "a", "_", "_", "_", "Z", "-", "9", "_", "_">>

-----------------------------------------------------------------------------
(* Sharing claims                                                          *)

\* C7: a share action assigns a token only to a document that has none and
\* otherwise reuses the stored one: once a document's stored share token is
\* set, no step changes it (so every link sent earlier stays valid).
C7_ShareTokenNeverChanges ==
    [][\A d \in pdfs : \A e \in pdfs' :
          (d.share_token # NULL /\ e.id = d.id) => e.share_token = d.share_token]_vars

\* C8: every share link the Dashboard produced for a document D (copied or
\* sent by email) has the shape /shared/<token>, and the shared page opened
\* on it by an anonymous visitor shows D itself: not 'not found', not
\* another document.
C8_DashboardLinksResolve ==
    (shared.pc = "done" /\ shared.who = Anon)
    => \A l \in ProducedLinks :
          l.path = shared.path
          => /\ RouteMatches(l.path)
             /\ {p.id : p \in shared.pdf} = {l.doc}

\* C9 as stated: a document is shown only when exactly one document's share
\* credential equals the presented value, and when none matches the page
\* shows a notification, navigates away and keeps its pdf state null.
C9_NotFoundNavigatesAway ==
    [][(shared.pc = "closed" /\ shared'.pc = "done" /\ shared'.rev # "none")
       => LET value == shared'.path[2]
              col == IF shared'.rev = "current" THEN "share_token"
                     ELSE "shared_link_id"
              matches == {d \in pdfs : d[col] # NULL /\ d[col] = value} IN
          /\ shared'.pdf # {}
                => /\ Cardinality(matches) = 1
                   /\ {p.id : p \in shared'.pdf} = {d.id : d \in matches}
          /\ matches = {}
                => /\ shared'.pdf = {}
                   /\ shared'.toast.kind = "error"
                   /\ shared'.navigated]_vars

\* C9 (amended): a document is shown only when exactly one document's share
\* credential (share_token in the current revision of the page,
\* shared_link_id in the earlier one) equals the presented value, and it is
\* that document; when none matches, the pdf state stays null and an error
\* notification is shown; the current revision also navigates away, the
\* earlier revision stays on the page.
C9_ResolvesExactlyOneMatch ==
    [][(shared.pc = "closed" /\ shared'.pc = "done" /\ shared'.rev # "none")
       => LET value == shared'.path[2]
              col == IF shared'.rev = "current" THEN "share_token"
                     ELSE "shared_link_id"
              matches == {d \in pdfs : d[col] # NULL /\ d[col] = value} IN
          /\ shared'.pdf # {}
                => /\ Cardinality(matches) = 1
                   /\ \E d \in matches : \E p \in shared'.pdf :
                         /\ shared'.pdf = {p}
                         /\ p.id = d.id /\ p.name = d.name /\ p.user_id = d.user_id
          /\ matches = {}
                => /\ shared'.pdf = {}
                   /\ shared'.toast.kind = "error"
                   /\ shared'.navigated = (shared'.rev = "current")]_vars

C9_Witness ==
    /\ shared.pc = "done"
    /\ shared.who = Anon
    /\ shared.rev = "current"
    /\ Cardinality(pdfs) = 2
    /\ \E p \in shared.pdf : \E l \in links :
          /\ l.doc = p.id
          /\ l.path = shared.path
          /\ \E d \in pdfs : d.id # p.id /\ d.shared_link_id # NULL

-----------------------------------------------------------------------------
(* Comment display claims                                                  *)

\* C10: every comment that enters the page's list, by the initial load or by
\* a streamed insert, is labelled "Guest" when its author is null and with
\* the author's display name as the profiles table holds it at that moment
\* when it has an author.
C10_LabelIsCurrentProfileName ==
    [][\A k \in 1..Len(view'.list) :
          LET e == view'.list[k] IN
          (\A j \in 1..Len(view.list) : view.list[j] # e)
          => Label(e) = IF e.user_id = NULL THEN "Guest" ELSE profiles[e.user_id]]_vars

-----------------------------------------------------------------------------
(* Specification SpecCompose: the comment form and addComment of the PDFView *)
(* page and of the SharedPDF page (current revisions).                       *)

\* String.prototype.trim() of a text whose only white space is ' '
Trim(s) ==
    LET inked == {i \in 1..Len(s) : s[i] # " "} IN
    IF inked = {} THEN <<>>
    ELSE SubSeq(s, CHOOSE i \in inked : \A j \in inked : i <= j,
                   CHOOSE i \in inked : \A j \in inked : i >= j)

\* onChange of the editor: setNewComment(text)
TypeDraft(text) ==
    /\ compose.draft # text
    /\ compose' = [compose EXCEPT !.draft = text]
    /\ UNCHANGED <<dbVars, resp, session, up, uploading, dashPdfs, clipboard,
                   links, share, shared, viewVars,
                   del,
                   pager>>

\* a call that tests the draft as it is typed
AddCommentStartUntrimmed(page) ==
    /\ compose.pc \in {"idle", "done"}
    /\ Cardinality(comments) < MaxComments
    /\ IF page \in {"view", "members"} THEN view.pc # "closed" /\ view.rev = "current"
       ELSE shared.rev = "current" /\ shared.pdf # {}
    /\ LET doc == IF page \in {"view", "members"} THEN view.pdfId
                  ELSE (CHOOSE r \in shared.pdf : TRUE).id
           called == [NoCompose EXCEPT !.page = page, !.doc = doc,
                                       !.draft = compose.draft,
                                       !.arg = compose.draft,
                                       !.list = compose.list] IN
       IF compose.draft = <<>>
       THEN compose' = [called EXCEPT !.pc = "done"]
       ELSE compose' = [called EXCEPT !.pc = "getUser", !.calls = 1]
    /\ UNCHANGED <<dbVars, resp, session, up, uploading, dashPdfs, clipboard,
                   links, share, shared, viewVars,
                   del,
                   pager>>

\* addComment is called on a page that shows its document ("view": PDFView,
\* "shared": SharedPDF, "members": the PDFView revision that posts for
\* signed-in users only): it returns at once when the draft is empty after
\* trimming, else it asks for the user
AddCommentStart(page) ==
    /\ compose.pc \in {"idle", "done"}
    /\ Cardinality(comments) < MaxComments
    /\ IF page \in {"view", "members"} THEN view.pc # "closed" /\ view.rev = "current"
       ELSE shared.rev = "current" /\ shared.pdf # {}
    /\ LET doc == IF page \in {"view", "members"} THEN view.pdfId
                  ELSE (CHOOSE r \in shared.pdf : TRUE).id
           called == [NoCompose EXCEPT !.page = page, !.doc = doc,
                                       !.draft = compose.draft,
                                       !.arg = compose.draft,
                                       !.list = compose.list] IN
       IF Trim(compose.draft) = <<>>
       THEN compose' = [called EXCEPT !.pc = "done"]
       ELSE compose' = [called EXCEPT !.pc = "getUser", !.calls = 1]
    /\ UNCHANGED <<dbVars, resp, session, up, uploading, dashPdfs, clipboard,
                   links, share, shared, viewVars,
                   del,
                   pager>>

\* supabase.auth.getUser() answers with the browser's identity; the insert of
\* {pdf_id, content: newComment.trim(), user_id} is sent.  The "members"
\* revision throws 'User not authenticated' when there is no user, before
\* its try block: the call ends as a rejected promise nobody handles
AddCommentUser ==
    /\ compose.pc = "getUser"
    /\ LET who == IF compose.page \in {"view", "members"} THEN session
                  ELSE IF shared.who = Anon THEN NULL ELSE shared.who IN
       IF compose.page = "members" /\ who = NULL
       THEN compose' = [compose EXCEPT
                          !.pc = "done",
                          !.toast = [kind |-> "unhandled",
                                     message |-> "User not authenticated"]]
       ELSE compose' = [compose EXCEPT
                          !.pc = "insert", !.userId = who, !.calls = @ + 1,
                          !.inserts = {[pdf_id |-> compose.doc,
                                        content |-> Trim(compose.arg),
                                        user_id |-> who]}]
    /\ UNCHANGED <<dbVars, resp, session, up, uploading, dashPdfs, clipboard,
                   links, share, shared, viewVars,
                   del,
                   pager>>

\* the insert answers: on success the draft is cleared and (PDFView) the toast
\* is shown or (SharedPDF) loadComments is sent and awaited or ("members")
\* loadComments is sent and not awaited; an error shows the error toast
AddCommentInsert(netOk) ==
    /\ compose.pc = "insert"
    /\ LET who == IF compose.page \in {"view", "members"} THEN session
                  ELSE IF shared.who = Anon THEN NULL ELSE shared.who
           req == Request(IF who = NULL THEN Anon ELSE who, NULL)
           c == CommentRow(Cardinality(comments) + 1, compose.doc, compose.userId,
                           clock, Trim(compose.arg))
           res == IF netOk THEN CommentsInsertResult(req, c, pdfs) ELSE "network" IN
       IF res = "ok"
       THEN /\ comments' = comments \cup {c}
            /\ feed' = IF /\ view.pc # "closed"
                          /\ view.pdfId = c.pdf_id
                          /\ c \in VisibleComments(SessionRequest, {c}, pdfs)
                       THEN Append(feed, c) ELSE feed
            /\ compose' =
                 IF compose.page = "view"
                 THEN [compose EXCEPT !.pc = "done", !.draft = <<>>,
                                      !.toast = ToastSuccess("Comment added!")]
                 ELSE IF compose.page = "members"
                 THEN [compose EXCEPT !.pc = "done", !.draft = <<>>]
                 ELSE [compose EXCEPT !.pc = "reload", !.draft = <<>>,
                                      !.calls = @ + 1]
            /\ view' = IF compose.page = "members" /\ view.pc # "closed"
                       THEN [view EXCEPT !.pc = "query"] ELSE view
       ELSE /\ compose' =
                 [compose EXCEPT
                    !.pc = "done",
                    !.toast = ToastError(IF compose.page \in {"view", "members"}
                                         THEN "Failed to add comment"
                                         ELSE "Failed to add comment.")]
            /\ UNCHANGED <<comments, feed, view>>
    /\ UNCHANGED <<pdfs, bucket, profiles, nextId, nextTok, clock, resp, session,
                   up, uploading, dashPdfs, clipboard, links, share, shared,
                   del, pager>>

\* SharedPDF: the loadComments awaited by addComment answers (oldest first,
\* merged with the profiles), then the success toast is shown
AddCommentReload ==
    /\ compose.pc = "reload"
    /\ LET req == Request(shared.who, shared.path[2])
           rows == VisibleComments(req, {c \in comments : c.pdf_id = compose.doc},
                                   pdfs) IN
       compose' = [compose EXCEPT
                     !.pc = "done",
                     !.list = Merged(OrderedComments(rows, TRUE)),
                     !.toast = ToastSuccess("Comment added!")]
    /\ UNCHANGED <<dbVars, resp, session, up, uploading, dashPdfs, clipboard,
                   links, share, shared, viewVars,
                   del,
                   pager>>

NextCompose ==
    \/ ApiInsertPdf(SessionRequest, session, 0)
    \/ \E id \in 1..MaxDocs, t \in Tokens :
          ApiUpdatePdf(SessionRequest, id, "share_token", t)
    \/ ApiConsume
    \/ SignOut
    \/ \E id \in 1..MaxDocs : OpenView("current", id)
    \/ \E who \in Requesters, t \in Tokens :
          OpenShared("current", who, <<"shared", t>>, FALSE)
    \/ \E text \in {<<>>, <<" ">>, <<" ", "a", " ", "b", " ">>} :
          TypeDraft(text)
    \/ \E page \in {"view", "shared"} : AddCommentStart(page)
    \/ AddCommentUser
    \/ \E netOk \in BOOLEAN : AddCommentInsert(netOk)
    \/ AddCommentReload

SpecCompose == InitViewer /\ [][NextCompose]_vars

(* Specification SpecFailure: the calls of the uploader and of addComment  *)
(* (the revision for signed-in users) under failures of the network and a  *)
(* session that ends.                                                      *)

NextFailure ==
    \/ ApiInsertPdf(SessionRequest, session, 0)
    \/ ApiConsume
    \/ SignOut
    \/ \E file \in Files : UploadFile(1, file)
    \/ \E netOk \in BOOLEAN : UploadResponse(1, netOk)
    \/ \E netOk \in BOOLEAN : GetUserResponse(1, netOk)
    \/ \E netOk \in BOOLEAN : InsertResponse(1, netOk)
    \/ \E id \in 1..MaxDocs : OpenView("current", id)
    \/ LoadCommentsData
    \/ LoadCommentsProfiles
    \/ \E text \in {<<>>, <<"a">>} : TypeDraft(text)
    \/ AddCommentStart("members")
    \/ AddCommentUser
    \/ \E netOk \in BOOLEAN : AddCommentInsert(netOk)

SpecFailure == InitViewer /\ [][NextFailure]_vars

-----------------------------------------------------------------------------
(* Realtime claims                                                         *)

C12_NothingAfterTeardown ==
    [][(view.pc = "closed" /\ view'.pc = "closed")
       => (view'.list = view.list /\ view'.toasts = view.toasts)]_vars

\* C13: under every interleaving of the initial load and the streamed INSERT
\* events, the page's comment list never holds two entries with the same
\* comment id.
C13_NoDuplicateEntries ==
    \A j, k \in 1..Len(view.list) :
        view.list[j].id = view.list[k].id => j = k

\* C14: after any sequence of the initial load and streamed INSERT events,
\* the page's comment list is ordered by creation time in the direction of
\* the initial query: newest first in the current revision (prepend), oldest
\* first in the earlier one (append).
C14_ListInQueryOrder ==
    \A j, k \in 1..Len(view.list) :
        j < k =>
            IF view.rev = "earlier"
            THEN view.list[j].created_at <= view.list[k].created_at
            ELSE view.list[j].created_at >= view.list[k].created_at

-----------------------------------------------------------------------------
(* Comment claims                                                          *)

\* C15: a call of addComment whose draft is empty after trimming issues no
\* network call and changes no state; any other call sends exactly one insert,
\* of the trimmed draft, for the document the page shows, with the browser's
\* identity as author (null without a session); the insert adds exactly that
\* comment or nothing, and the draft is cleared by the call exactly when the
\* insert succeeded.
C15_AddCommentContract ==
    /\ [](compose.pc # "idle" =>
            IF Trim(compose.arg) = <<>>
            THEN /\ compose.pc = "done"
                 /\ compose.calls = 0
                 /\ compose.inserts = {}
                 /\ compose.toast = NoToast
            ELSE /\ Cardinality(compose.inserts) <= 1
                 /\ compose.pc # "getUser" => Cardinality(compose.inserts) = 1)
    /\ [][LET viewed == IF compose'.page = "view" THEN view.pdfId
                        ELSE (CHOOSE r \in shared.pdf : TRUE).id
              identity == IF compose'.page = "view" THEN session
                          ELSE IF shared.who = Anon THEN NULL ELSE shared.who IN
          /\ (/\ compose'.pc = "done"
              /\ \/ compose.pc = "idle"
                 \/ compose.pc = "done" /\ compose'.arg # compose.arg)
                => /\ compose'.draft = compose.draft
                   /\ compose'.list = compose.list
                   /\ <<dbVars, view, feed, shared>>' = <<dbVars, view, feed, shared>>
          /\ (compose.pc = "getUser" /\ compose'.pc = "insert")
                => /\ compose'.inserts = {[pdf_id |-> viewed,
                                           content |-> Trim(compose.arg),
                                           user_id |-> identity]}
                   /\ compose'.draft = compose.draft
                   /\ comments' = comments
          /\ (compose.pc = "insert" /\ compose'.pc # "insert")
                => \/ /\ comments' = comments
                      /\ compose'.draft = compose.draft
                      /\ compose'.toast.kind = "error"
                   \/ /\ \E c \in comments' \ comments :
                            /\ comments' = comments \cup {c}
                            /\ [pdf_id |-> c.pdf_id, content |-> c.content,
                                user_id |-> c.user_id] \in compose.inserts
                      /\ compose'.draft = <<>>
          /\ (compose.pc = "reload" /\ compose'.pc # "reload")
                => compose'.draft = compose.draft /\ comments' = comments]_vars

\* C15 witness: a draft with white space around it was posted from the
\* PDFView page: the stored body is the trimmed text, the draft is empty
C15_Witness ==
    /\ compose.pc = "done"
    /\ compose.page = "view"
    /\ compose.arg = <<" ", "a", " ", "b", " ">>
    /\ compose.toast = ToastSuccess("Comment added!")
    /\ compose.draft = <<>>
    /\ \E c \in comments :
          c.content = <<"a", " ", "b">> /\ c.user_id = compose.userId

\* C16: the data layer accepts the insert of a comment for an existing
\* document exactly when the requester is authenticated and the author field
\* is the requester's identity, or the requester is anonymous and the author
\* field is empty (so that a guest comment of the shared page is stored).
C16_CommentInsertAccepted ==
    resp.op = "comment" =>
        \A c \in resp.sent :
            (\E d \in pdfs : d.id = c.pdf_id) =>
                (resp.result = "ok" <=>
                    \/ resp.uid \in Users /\ c.user_id = resp.uid
                    \/ resp.uid = Anon /\ c.user_id = NULL)

\* C17 as stated: a request reads a comment only if the requester owns the
\* comment's document or presents the document's share credential.
C17_ReadByOwnerOrCredentialOnly ==
    resp.op = "comments" =>
        \A c \in resp.data :
            \E d \in pdfs :
                /\ d.id = c.pdf_id
                /\ resp.uid = d.user_id \/ Presents(resp.cred, d)

\* C17 amended: a request reads a comment only if the requester owns the
\* comment's document, presents the document's share credential, or is the
\* authenticated author of the comment.
C17_ReadByOwnerCredentialOrAuthor ==
    resp.op = "comments" =>
        \A c \in resp.data :
            \E d \in pdfs :
                /\ d.id = c.pdf_id
                /\ \/ resp.uid = d.user_id
                   \/ Presents(resp.cred, d)
                   \/ resp.uid \in Users /\ resp.uid = c.user_id

\* C17 witness: a user reads their own comment on somebody else's document
\* without presenting a credential
C17_Witness ==
    /\ resp.op = "comments"
    /\ resp.cred = NULL
    /\ resp.data # {}
    /\ \A c \in resp.data :
          /\ c.user_id = resp.uid
          /\ \A d \in pdfs : d.id = c.pdf_id => d.user_id # resp.uid

-----------------------------------------------------------------------------
(* Ownership and integrity claims                                          *)

\* C18: a row of pdfs is created only by an authenticated requester and with
\* the requester as owner: an anonymous insert, or one naming another user
\* as owner, is refused and leaves pdfs as it was; the uploader's insert
\* names the identity its auth lookup returned.
C18_CreateOnlyAsOneself ==
    /\ [](resp.op = "insert" =>
            \A row \in resp.sent :
                IF resp.uid \in Users /\ row.user_id = resp.uid
                THEN resp.result = "ok" /\ row \in pdfs
                ELSE resp.result = "denied" /\ row \notin pdfs)
    /\ [][/\ (resp.op = "none" /\ resp'.op = "insert" /\ resp'.result # "ok")
                => pdfs' = pdfs
          /\ \A i \in Uploads :
                /\ (up[i].pc = "getUser" /\ up'[i].pc = "insert")
                      => up'[i].userId = session /\ session \in Users
                /\ (up[i].pc = "insert" /\ up'[i].pc # "insert")
                      => /\ \A r \in pdfs' \ pdfs :
                               r.user_id = up[i].userId /\ r.user_id = session
                         /\ session # up[i].userId => pdfs' = pdfs
          /\ \A r \in pdfs' \ pdfs :
                \/ resp'.op = "insert" /\ resp'.uid = r.user_id /\ r \in resp'.sent
                \/ \E i \in Uploads : up[i].pc = "insert" /\ up'[i].record = {r}]_vars

\* C18 witness: one upload created its row for the signed-in user, another
\* had its insert refused because the session had ended after the auth lookup
C18_Witness ==
    \E i, j \in Uploads :
        /\ up[i].toast.kind = "success"
        /\ \E r \in pdfs : up[i].record = {r} /\ r.user_id = up[i].userId
        /\ up[j].toast = ToastError("Failed to create database record")
        /\ up[j].userId \in Users
        /\ session = NULL

\* C19: the owner of a document never changes: whatever request is made
\* (share-token update, update of user_id, insert or delete of rows, comment
\* insert), a row that is in pdfs before and after has the same user_id.
C19_OwnerNeverChanges ==
    [][\A d \in pdfs : \A e \in pdfs' : e.id = d.id => e.user_id = d.user_id]_vars

\* C19 witness: the owner asked to hand the document to another user and was
\* refused; the row is as it was
C19_Witness ==
    /\ resp.op = "update"
    /\ resp.col = "user_id"
    /\ resp.result = "denied"
    /\ \E d \in resp.before : resp.uid = d.user_id /\ d \in pdfs

\* C20: in every state each comment references a row of pdfs: the delete of
\* a document removes its comments in the same step, and the insert of a
\* comment for a document id that does not exist is refused.
C20_CommentsReferenceDocuments ==
    /\ \A c \in comments : \E d \in pdfs : d.id = c.pdf_id
    /\ (resp.op = "comment" /\ resp.result = "ok")
          => \A c \in resp.sent : \E d \in pdfs : d.id = c.pdf_id

\* C20 witness: the owner deleted a document that had a comment; the comment
\* went with it
C20_Witness ==
    /\ resp.op = "delete"
    /\ resp.result = "ok"
    /\ resp.data # {}
    /\ \A c \in resp.data : c.pdf_id = resp.doc /\ c \notin comments
    /\ RowsById(pdfs, resp.doc) = {}

-----------------------------------------------------------------------------
(* Partial-failure claims                                                  *)

\* C21: uploadFile does not roll back: when the storage upload succeeded and
\* the auth lookup or the insert failed, the object stays in the bucket, no
\* row of pdfs names it, onUploadComplete is not called and an error toast
\* is shown; when the storage upload failed, no auth lookup and no insert is
\* sent.
C21_UploadNotRolledBack ==
    /\ [](\A i \in Uploads :
            (up[i].pc = "done" /\ up[i].toast.kind # "success"
               /\ AcceptsFile(up[i].file))
            => /\ up[i].toast.kind = "error"
               /\ up[i].record = {}
               /\ IF up[i].stored # {}
                  THEN /\ up[i].stored = {up[i].filename}
                       /\ up[i].filename \in bucket
                       /\ \A r \in pdfs : r.file_path # up[i].filename
                       /\ up[i].toast.message \in
                             {"User not authenticated",
                              "Failed to create database record"}
                  ELSE /\ up[i].sent = {"upload"}
                       /\ up[i].toast.message = "Failed to upload file to storage")
    /\ [][\A i \in Uploads :
            (up[i].pc # "done" /\ up'[i].pc = "done"
               /\ up'[i].toast.kind # "success")
            => /\ bucket' = bucket
               /\ pdfs' = pdfs
               /\ dashPdfs' = dashPdfs]_vars

\* C21 witness: an upload whose insert failed left its object in the bucket
C21_Witness ==
    \E i \in Uploads :
        /\ up[i].pc = "done"
        /\ up[i].toast = ToastError("Failed to create database record")
        /\ up[i].filename \in bucket
        /\ \A r \in pdfs : r.file_path # up[i].filename

\* C22: handleDelete removes the stored object first and the row second.  A
\* storage removal that answers with an error ends the call with the error
\* toast and leaves bucket, rows and list as they were; one that answers
\* without an error only goes on to the row (with a session the object is
\* gone from then on).  A row deletion that answers with an error leaves the
\* rows and the list as they were and does not put the object back; the
\* document leaves the list only in the step where the row deletion answers
\* without an error, after the storage removal did.
C22_DeleteObjectThenRow ==
    [][/\ (del.pc = "storage" /\ del'.pc = "done")
          => /\ del'.toast = ToastError("Failed to delete PDF")
             /\ pdfs' = pdfs /\ dashPdfs' = dashPdfs /\ bucket' = bucket
       /\ (del.pc = "storage" /\ del'.pc = "row")
          => /\ pdfs' = pdfs /\ dashPdfs' = dashPdfs
             /\ session # NULL => del.path \notin bucket'
       /\ (del.pc = "row" /\ del'.pc = "done" /\ del'.toast.kind = "error")
          => /\ del'.toast = ToastError("Failed to delete PDF")
             /\ pdfs' = pdfs /\ dashPdfs' = dashPdfs /\ bucket' = bucket
       /\ (del' # del /\ dashPdfs' # dashPdfs)
          => /\ del.pc = "row" /\ del'.pc = "done"
             /\ del'.toast = ToastSuccess("PDF deleted successfully")
             /\ \A n \in 1..Len(dashPdfs') : dashPdfs'[n].id # del.id
             /\ session # NULL => RowsById(pdfs', del.id) = {}
      ]_vars

\* the storage removal succeeded and the row deletion failed: the row is
\* still there and on the list, naming an object the bucket no longer holds
C22_Witness ==
    /\ del.pc = "done" /\ del.toast.kind = "error"
    /\ del.path \notin bucket
    /\ \E r \in pdfs : r.id = del.id /\ r.file_path = del.path
    /\ \E n \in 1..Len(dashPdfs) : dashPdfs[n].id = del.id

\* C30: once every upload and delete started from the Dashboard has
\* completed, the list on display holds exactly the stored rows of the
\* signed-in user, each once: no deleted document is listed and no uploaded
\* document is missing.
C30_ListMatchesStore ==
    (/\ session # NULL
     /\ \A i \in Uploads : up[i].pc \in {"idle", "done"}
     /\ del.pc \in {"idle", "done"})
    => /\ {dashPdfs[n] : n \in 1..Len(dashPdfs)} = {r \in pdfs : r.user_id = session}
       /\ \A m, n \in 1..Len(dashPdfs) : dashPdfs[m].id = dashPdfs[n].id => m = n

\* C29: while at least one uploadFile call is in flight the uploading flag
\* is true; the flag is false only when no call is in flight.
C29_BusyWhileUploading ==
    (\E i \in Uploads : up[i].pc \notin {"idle", "done"}) => uploading = TRUE

\* C27: once the initial load and every event handler of the open page have
\* completed, every comment of the document that the viewer may read is in
\* the page's list, whatever the order of the load answers and the streamed
\* events: the load result replacing the list discards no streamed comment.
C27_NoStreamedCommentLost ==
    (/\ view.pc = "ready"
     /\ feed = <<>>
     /\ view.handlers = {})
    => \A c \in VisibleComments(SessionRequest,
                                {x \in comments : x.pdf_id = view.pdfId}, pdfs) :
          \E k \in 1..Len(view.list) : view.list[k].id = c.id

\* C28: in both viewers the page number is at least 1 and, when the page
\* count is known, at most the page count, after any sequence of Prev and
\* Next clicks, document load completions and changes of the viewed
\* document within the mounted viewer.
C28_PageNumberInRange ==
    pager.page # "none"
    => /\ pager.pageNumber >= 1
       /\ pager.numPages # 0 => pager.pageNumber <= pager.numPages

-----------------------------------------------------------------------------
(* Storage and credential claims                                           *)

-----------------------------------------------------------------------------
(* Failure-reporting claims                                                *)

\* C23: a document lookup that shows no document ends the same way whether
\* no row is stored or a stored row is hidden by the policies: on the shared
\* page the same notification and navigation for the revision, in PDFView
\* the toast 'Failed to load PDF' and the navigation to '/', with nothing of
\* the row in the page's state.
C23_DeniedLooksLikeMissing ==
    [][/\ (shared.pc = "closed" /\ shared'.pc = "done" /\ shared'.pdf = {}
           /\ RouteMatches(shared'.path))
          => shared' = [NoShared EXCEPT
                          !.pc = "done", !.rev = shared'.rev, !.who = shared'.who,
                          !.path = shared'.path,
                          !.toast = IF shared'.rev = "current"
                                    THEN ToastError("Shared PDF not found.")
                                    ELSE ToastError("Failed to load PDF"),
                          !.navigated = (shared'.rev = "current")]
       /\ (view.pc = "closed" /\ view'.pc = "failed")
          => view' = [NoView EXCEPT
                        !.pc = "failed", !.pdfId = view'.pdfId,
                        !.error = ToastError("Failed to load PDF"),
                        !.navigated = TRUE,
                        !.stale = view.stale, !.toasts = view.toasts]
       /\ (view.pc = "closed" /\ view'.pc = "loaded")
          => view'.pdf \subseteq VisiblePdfs(SessionRequest, pdfs)
      ]_vars

\* both lookups have failed on rows that are stored but hidden: the shared
\* page on a row holding the path's value, PDFView on another user's row
C23_Witness ==
    /\ shared.pc = "done" /\ shared.pdf = {} /\ RouteMatches(shared.path)
    /\ \E r \in pdfs : r[SharedColumn(shared.rev)] = shared.path[2]
    /\ view.pc = "failed"
    /\ \E r \in pdfs : r.id = view.pdfId /\ r.user_id # session

\* C24: no failure leaves the page stuck or unreported: a call of uploadFile
\* that ends has set the uploading flag to false and, unless it succeeded,
\* has shown an error notification; no call of a handler ends as an
\* unhandled exception without a notification.
C24_FailuresReported ==
    /\ [](/\ \A i \in Uploads :
               up[i].pc = "done" => up[i].toast.kind \in {"success", "error"}
          /\ compose.pc = "done" => compose.toast.kind # "unhandled")
    /\ [][\A i \in Uploads :
             (up[i].pc # "done" /\ up'[i].pc = "done") => uploading' = FALSE]_vars
====
